---------------------------- MODULE Spec2Model ----------------------------
(***************************************************************************)
(* graph-layout: locality-preserving maps between (u32, u32) and u64       *)
(* (src/src/layout.rs) and the delta compression of increasing u64         *)
(* sequences (src/src/compression.rs).                                     *)
(*                                                                         *)
(* Number representation.  TLC's integers are 32-bit, so                    *)
(*  - layout.rs is modelled at half width: a "byte" has ByteBits = 4 bits   *)
(*    (u8 in the source), a coordinate NumBytes = 4 bytes (u32 in the       *)
(*    source: 16 bits here), a tangle NumBytes chunks of 2*ByteBits bits    *)
(*    (u64 in the source), kept as a tuple of 4 chunks, least significant   *)
(*    first.  Every shift, mask and table size of the source is written     *)
(*    in terms of ByteBits, so that ByteBits = 8 gives the source's         *)
(*    literals (24, 23, 48, 44, 255, 0x0F, 0xF0, 65536 ...).                *)
(*  - compression.rs is modelled at full width: a u64 is a tuple of four    *)
(*    16-bit limbs, least significant first.                                *)
(*                                                                         *)
(* Builds.  Rust's +, - on integers panic on overflow when the build has    *)
(* overflow checks (the default of debug and test builds) and wrap         *)
(* otherwise (the default of release and bench builds).  The variable      *)
(* overflow_checks is the build's choice.                                  *)
(***************************************************************************)
EXTENDS Integers, Sequences, FiniteSets, TLC

VARIABLES
    overflow_checks,  \* the build: TRUE = arithmetic overflow panics
    component,        \* what the caller drives: "zorder" | "hilbert" | "bitwise"
                      \*   | "cached" | "compress"
    tangler,          \* layout: "none" | "ready" | "panicked"
    op,               \* layout: the last operation that ran
    pair,             \* layout: the (x, y) passed to / returned by the operation
    tangle,           \* layout: the tangle passed to / returned by the operation
    assert_ok,        \* layout: value of the last debug_assert!'s condition
    log_s,            \* bit_entangle / bit_detangle: the loop variable
    rot_arg,          \* the last call of bit_rotate: <<logn, pair.0, pair.1, rx, ry>>
    rot_res,          \* what that call returned
    prev_hi,          \* BytewiseCached.prev_hi
    prev_out,         \* BytewiseCached.prev_out
    prev_rot,         \* BytewiseCached.prev_rot
    phase,            \* compression: "none" | "compressor" | "compressed"
                      \*   | "decompressor" | "panicked"
    current,          \* Compressor.current
    compressed,       \* the Compressed: [bytes, other, u16s, u32s, u64s]
    decompressor,     \* the Decompressor: current, and how many entries of each
                      \*   stream its iterators have consumed
    pushed,           \* history: the values passed to Compressor::push
    yielded,          \* history: the values Decompressor::next returned in Some
    last_push,        \* history: what the last Compressor::push did
    last_next         \* history: "Some" | "None" | "panic", the last next();
                      \*   "decompress" right after decompress(), "" before

layoutVars == <<tangler, op, pair, tangle, assert_ok>>
bitVars == <<log_s, rot_arg, rot_res>>
cacheVars == <<prev_hi, prev_out, prev_rot>>
compressVars == <<phase, current, compressed, decompressor, pushed, yielded,
                  last_push, last_next>>
vars == <<overflow_checks, component, layoutVars, bitVars, cacheVars, compressVars>>

---------------------------------------------------------------------------
(* Widths *)

\* bits of a table byte (u8 in layout.rs; modelled at half width)
ByteBits == 4
\* bytes of a coordinate: the `for i in 0..4` of entangle and detangle
NumBytes == 4
\* bits of a coordinate (u32 in layout.rs)
CoordBits == ByteBits * NumBytes
\* 2^ByteBits: number of values of a byte (256 in layout.rs)
ByteSize == 2 ^ ByteBits
\* 2^(2*ByteBits): number of values of a tangle chunk (65536 in layout.rs)
ChunkSize == ByteSize * ByteSize
\* 2^CoordBits
CoordSize == 2 ^ CoordBits

\* (v >> n) for an unsigned v
Shr(v, n) == v \div (2 ^ n)
\* (v >> n) & 1
BitAt(v, n) == (v \div (2 ^ n)) % 2
\* a ^ b on single bits
Xor1(a, b) == (a + b) % 2

\* the element of a singleton set.  The({e(v) : v \in {d}}) is e(d) with d
\* evaluated once
The(S) == CHOOSE v \in S : TRUE

\* outcome of an operation that panicked
PanicPair == <<-1, -1>>
PanicTangle == <<-1, -1, -1, -1>>
ZeroTangle == <<0, 0, 0, 0>>

---------------------------------------------------------------------------
(* Hilbert: the bit-wise reference algorithm *)

\* bit_rotate reflecting without the swap: (off - pair.0, off - pair.1)
bit_rotate_reflect_only(chk, logn, p, rx, ry) ==
    IF ry = 0
    THEN IF rx # 0
         THEN LET off == ((2 ^ logn) - 1) % CoordSize
              IN  IF chk /\ (off < p[2] \/ off < p[1])
                  THEN PanicPair
                  ELSE <<(off - p[1]) % CoordSize, (off - p[2]) % CoordSize>>
         ELSE <<p[2], p[1]>>
    ELSE p

\* rotation of pair based on residual bits rx and ry.  off - pair.1 and
\* off - pair.0 are plain u32 subtractions: they panic under overflow checks
\* when the coordinate exceeds off, and wrap otherwise.
bit_rotate(chk, logn, p, rx, ry) ==
    IF ry = 0
    THEN IF rx # 0
         THEN LET off == ((2 ^ logn) - 1) % CoordSize
              IN  IF chk /\ (off < p[2] \/ off < p[1])
                  THEN PanicPair
                  ELSE <<(off - p[2]) % CoordSize, (off - p[1]) % CoordSize>>
         ELSE <<p[2], p[1]>>
    ELSE p

\* result += (q as u64) << (2 * log_s), on the chunks of result
AddQuadrant(result, ls, q) ==
    [result EXCEPT ![(ls \div ByteBits) + 1] = @ + q * (4 ^ (ls % ByteBits))]

\* 3 * rx ^ ry : the quadrant's place on the curve
QuadrantCode(rx, ry) == IF rx = 1 THEN 3 - ry ELSE ry

\* one iteration of the loop of bit_entangle: the rotated pair, the result
\* with the quadrant added, and the arguments bit_rotate was called with
bit_entangle_iter(chk, ls, p, result) ==
    LET rx == BitAt(p[1], ls)
        ry == BitAt(p[2], ls)
    IN  [pair |-> bit_rotate(chk, ls, p, rx, ry),
         result |-> AddQuadrant(result, ls, QuadrantCode(rx, ry)),
         rot_arg |-> <<ls, p[1], p[2], rx, ry>>]

\* the loop of bit_entangle from bit ls down to bit 0
RECURSIVE bit_entangle_loop(_, _, _, _)
bit_entangle_loop(chk, ls, p, result) ==
    The({IF it.pair = PanicPair THEN PanicTangle
         ELSE IF ls = 0 THEN it.result
         ELSE bit_entangle_loop(chk, ls - 1, it.pair, it.result)
         : it \in {bit_entangle_iter(chk, ls, p, result)}})

\* entangle operator implemented bitwise
bit_entangle(chk, p) == bit_entangle_loop(chk, CoordBits - 1, p, ZeroTangle)

\* ((tangle >> (2 * log_s)) & 3)
QuadrantAt(t, ls) ==
    (t[(ls \div ByteBits) + 1] \div (4 ^ (ls % ByteBits))) % 4

\* one iteration of the loop of bit_detangle: the new result, the arguments
\* bit_rotate was called with and what it returned
bit_detangle_iter(chk, ls, t, result) ==
    LET shifted == QuadrantAt(t, ls)
        rx == (shifted \div 2) % 2
        ry == Xor1(shifted % 2, rx)
        rot == bit_rotate(chk, ls, result, rx, ry)
    IN  [pair |-> IF rot = PanicPair THEN PanicPair
                  ELSE <<(rot[1] + rx * (2 ^ ls)) % CoordSize,
                         (rot[2] + ry * (2 ^ ls)) % CoordSize>>,
         rot_arg |-> <<ls, result[1], result[2], rx, ry>>,
         rot_res |-> rot]

\* the loop of bit_detangle from bit ls up to bit 31
RECURSIVE bit_detangle_loop(_, _, _, _)
bit_detangle_loop(chk, ls, t, result) ==
    IF ls = CoordBits THEN result
    ELSE The({IF it.pair = PanicPair THEN PanicPair
              ELSE bit_detangle_loop(chk, ls + 1, t, it.pair)
              : it \in {bit_detangle_iter(chk, ls, t, result)}})

\* detangle operator implemented bitwise
bit_detangle(chk, t) == bit_detangle_loop(chk, 0, t, <<0, 0>>)

---------------------------------------------------------------------------
(* Hilbert: the tables built by Hilbert::new() *)

\* the pair Hilbert::new() entangles for bytes x, y:
\* ((x << 24), (y << 24) + (1 << 23))
ProbePair(x, y) ==
    <<x * (2 ^ (CoordBits - ByteBits)),
      y * (2 ^ (CoordBits - ByteBits)) + 2 ^ (CoordBits - ByteBits - 1)>>

\* key of the byte pair in entangle and rotation: ((x_byte as u16) << 8) + y_byte
Key(x, y) == x * ByteSize + y

\* whether Hilbert::new() panics: some bit_entangle of its loop does
Hilbert_new_panics(chk) ==
    \E k \in 0..(ChunkSize - 1) :
        bit_entangle(chk, ProbePair(k \div ByteSize, k % ByteSize)) = PanicTangle

\* Hilbert.entangle: (entangled >> 48) as u16, pushed in the order of the loop
Hilbert_entangle_table ==
    [k \in 0..(ChunkSize - 1) |->
        bit_entangle(FALSE, ProbePair(k \div ByteSize, k % ByteSize))[NumBytes]]

\* Hilbert.rotation: ((entangled >> 44) & 0x0F) as u8
Hilbert_rotation_table ==
    [k \in 0..(ChunkSize - 1) |->
        bit_entangle(FALSE, ProbePair(k \div ByteSize, k % ByteSize))[NumBytes - 1]
            \div (2 ^ (2 * ByteBits - 4))]

\* Hilbert.detangle: starts all (0, 0); detangle[entangled >> 48] = (x, y),
\* the last write of the loop winning
Hilbert_detangle_table ==
    [z \in 0..(ChunkSize - 1) |->
        LET ks == {k \in 0..(ChunkSize - 1) : Hilbert_entangle_table[k] = z}
        IN  IF ks = {} THEN <<0, 0>>
            ELSE LET k == CHOOSE m \in ks : \A n \in ks : n <= m
                 IN  <<k \div ByteSize, k % ByteSize>>]

---------------------------------------------------------------------------
(* Hilbert: entangle and detangle, a byte at a time *)

\* byte i (0 = least significant) of coordinate v: (v >> (8 * i)) as u8
ByteOf(v, i) == (v \div (ByteSize ^ i)) % ByteSize

\* (result << 16) + (c as u64), on the chunks of result
ShiftIn(result, c) == <<c, result[1], result[2], result[3]>>

\* Hilbert_entangle_rotate complementing for rotation 12 only
Hilbert_entangle_rotate_only12(rotation, x, y) ==
    LET sx == IF (rotation \div 2) % 2 = 1 THEN y ELSE x
        sy == IF (rotation \div 2) % 2 = 1 THEN x ELSE y
    IN  IF rotation = 12
        THEN <<(CoordSize - 1) - sx, (CoordSize - 1) - sy>>
        ELSE <<sx, sy>>

\* what entangle does to (x, y) after the byte pair with this rotation:
\* a swap when bit 1 is set, then x = 0xFFFFFFFF - x, y = 0xFFFFFFFF - y
\* when the rotation is 12 or 6
Hilbert_entangle_rotate(rotation, x, y) ==
    LET sx == IF (rotation \div 2) % 2 = 1 THEN y ELSE x
        sy == IF (rotation \div 2) % 2 = 1 THEN x ELSE y
    IN  IF rotation = 12 \/ rotation = 6
        THEN <<(CoordSize - 1) - sx, (CoordSize - 1) - sy>>
        ELSE <<sx, sy>>

\* iteration i of the loop of Hilbert::entangle: the new (x, y) and result
Hilbert_entangle_iter(i, x, y, result) ==
    LET x_byte == ByteOf(x, NumBytes - 1 - i)
        y_byte == ByteOf(y, NumBytes - 1 - i)
    IN  [xy |-> Hilbert_entangle_rotate(
                    Hilbert_rotation_table[Key(x_byte, y_byte)], x, y),
         result |-> ShiftIn(result, Hilbert_entangle_table[Key(x_byte, y_byte)])]

\* the loop of Hilbert::entangle from iteration i on
RECURSIVE Hilbert_entangle_loop(_, _, _, _)
Hilbert_entangle_loop(i, x, y, result) ==
    IF i = NumBytes THEN result
    ELSE The({Hilbert_entangle_loop(i + 1, it.xy[1], it.xy[2], it.result)
              : it \in {Hilbert_entangle_iter(i, x, y, result)}})

\* Hilbert::entangle, without its debug assertion
Hilbert_entangle(p) == Hilbert_entangle_loop(0, p[1], p[2], ZeroTangle)

\* Hilbert_detangle_rotate reflecting about (1 << 8 * log_s), without the - 1
Hilbert_detangle_rotate_off_by_one(chk, rotation, ls, res) ==
    LET top == 2 ^ (ByteBits * ls)
        flip == rotation = 12 \/ rotation = 6
        fx == IF flip THEN (top - res[1]) % CoordSize ELSE res[1]
        fy == IF flip THEN (top - res[2]) % CoordSize ELSE res[2]
    IN  IF chk /\ flip /\ (top - res[1] < 0 \/ top - res[2] < 0)
        THEN PanicPair
        ELSE IF (rotation \div 2) % 2 = 1 THEN <<fy, fx>> ELSE <<fx, fy>>

\* what detangle does to the bytes decoded so far when the next chunk has
\* this rotation: result.k = (1 << 8 * log_s) - result.k - 1 when the
\* rotation is 12 or 6 (a u32 subtraction), then a swap when bit 1 is set
Hilbert_detangle_rotate(chk, rotation, ls, res) ==
    LET top == 2 ^ (ByteBits * ls)
        flip == rotation = 12 \/ rotation = 6
        fx == IF flip THEN (top - res[1] - 1) % CoordSize ELSE res[1]
        fy == IF flip THEN (top - res[2] - 1) % CoordSize ELSE res[2]
    IN  IF chk /\ flip /\ (top - res[1] < 1 \/ top - res[2] < 1)
        THEN PanicPair
        ELSE IF (rotation \div 2) % 2 = 1 THEN <<fy, fx>> ELSE <<fx, fy>>

\* iteration ls of the loop of Hilbert::detangle: the new result
Hilbert_detangle_iter(chk, ls, t, res) ==
    LET xy_byte == Hilbert_detangle_table[t[ls + 1]]
        r == Hilbert_rotation_table[Key(xy_byte[1], xy_byte[2])]
        rot == Hilbert_detangle_rotate(chk, r, ls, res)
    IN  IF rot = PanicPair THEN PanicPair
        ELSE <<(rot[1] + xy_byte[1] * (ByteSize ^ ls)) % CoordSize,
               (rot[2] + xy_byte[2] * (ByteSize ^ ls)) % CoordSize>>

\* the loop of Hilbert::detangle from iteration ls on
RECURSIVE Hilbert_detangle_loop(_, _, _, _)
Hilbert_detangle_loop(chk, ls, t, res) ==
    IF ls = NumBytes THEN res
    ELSE The({IF it = PanicPair THEN PanicPair
              ELSE Hilbert_detangle_loop(chk, ls + 1, t, it)
              : it \in {Hilbert_detangle_iter(chk, ls, t, res)}})

\* Hilbert::detangle, without its debug assertion
Hilbert_detangle(chk, t) == Hilbert_detangle_loop(chk, 0, t, <<0, 0>>)

---------------------------------------------------------------------------
(* BytewiseCached *)

\* 0x0F in the source: the low half of a byte set
HalfMask == 2 ^ (ByteBits \div 2) - 1

\* tangle >> 16
TangleHi(t) == <<t[2], t[3], t[4], 0>>

\* (prev_hi << 16) + low
SentinelTangle(hi, low) == <<low, hi[1], hi[2], hi[3]>>

\* MatchRotation with the results of the two flipped arms exchanged
MatchRotation_flipped_arms(value) ==
    IF value = <<HalfMask, 0>> THEN <<FALSE, FALSE>>
    ELSE IF value = <<0, HalfMask>> THEN <<TRUE, FALSE>>
    ELSE IF value = <<(ByteSize - 1) - HalfMask, ByteSize - 1>> THEN <<TRUE, TRUE>>
    ELSE IF value = <<ByteSize - 1, (ByteSize - 1) - HalfMask>> THEN <<FALSE, TRUE>>
    ELSE <<>>

\* the match on (x as u8, y as u8): the rotation (swapped, flipped) the
\* pattern stands for, <<>> when no pattern matches (the panic! arm)
MatchRotation(value) ==
    IF value = <<HalfMask, 0>> THEN <<FALSE, FALSE>>
    ELSE IF value = <<0, HalfMask>> THEN <<TRUE, FALSE>>
    ELSE IF value = <<(ByteSize - 1) - HalfMask, ByteSize - 1>> THEN <<FALSE, TRUE>>
    ELSE IF value = <<ByteSize - 1, (ByteSize - 1) - HalfMask>> THEN <<TRUE, TRUE>>
    ELSE <<>>

\* the cache after `if self.prev_hi != (tangle >> 16) { ... }`:
\* [hi, out, rot, panic]
Cached_validate(chk, hi, out, rot, t) ==
    IF hi # TangleHi(t)
    THEN The({LET value == <<xy[1] % ByteSize, xy[2] % ByteSize>>
                  m == MatchRotation(value)
              IN  IF xy = PanicPair \/ m = <<>>
                  THEN [hi |-> TangleHi(t), out |-> out, rot |-> rot, panic |-> TRUE]
                  ELSE [hi |-> TangleHi(t),
                        out |-> <<xy[1] - (xy[1] % ByteSize),
                                  xy[2] - (xy[2] % ByteSize)>>,
                        rot |-> m, panic |-> FALSE]
              : xy \in {Hilbert_detangle(chk,
                            SentinelTangle(TangleHi(t), ByteSize - 1))}})
    ELSE [hi |-> hi, out |-> out, rot |-> rot, panic |-> FALSE]

\* the value BytewiseCached::detangle returns from the validated cache
Cached_result(cache, t) ==
    LET xy_byte == Hilbert_detangle_table[t[1]]
        fx == IF cache.rot[2] THEN (ByteSize - 1) - xy_byte[1] ELSE xy_byte[1]
        fy == IF cache.rot[2] THEN (ByteSize - 1) - xy_byte[2] ELSE xy_byte[2]
        sx == IF cache.rot[1] THEN fy ELSE fx
        sy == IF cache.rot[1] THEN fx ELSE fy
    IN  <<cache.out[1] + sx, cache.out[2] + sy>>

\* prev_hi of BytewiseCached::new(): 0xFFFFFFFFFFFFFFFF
AllOnesTangle == <<ChunkSize - 1, ChunkSize - 1, ChunkSize - 1, ChunkSize - 1>>

---------------------------------------------------------------------------
(* ZOrder *)

\* the z of ZOrder::new() for bytes x, y: bits b .. ByteBits - 1 of the sum
RECURSIVE ZOrder_interleave(_, _, _)
ZOrder_interleave(x, y, b) ==
    IF b = ByteBits THEN 0
    ELSE BitAt(x, b) * (2 ^ (2 * b)) + BitAt(y, b) * (2 ^ (2 * b + 1))
         + ZOrder_interleave(x, y, b + 1)

\* ZOrder.entangle: entangle[(x << 8) + y] = z as u16
ZOrder_entangle_table ==
    [k \in 0..(ChunkSize - 1) |->
        ZOrder_interleave(k \div ByteSize, k % ByteSize, 0) % ChunkSize]

\* ZOrder.detangle: starts all (0, 0); detangle[z] = (x as u8, y as u8), the
\* last write of the loop winning
ZOrder_detangle_table ==
    [z \in 0..(ChunkSize - 1) |->
        LET ks == {k \in 0..(ChunkSize - 1) :
                      ZOrder_interleave(k \div ByteSize, k % ByteSize, 0) = z}
        IN  IF ks = {} THEN <<0, 0>>
            ELSE LET k == CHOOSE m \in ks : \A n \in ks : n <= m
                 IN  <<k \div ByteSize, k % ByteSize>>]

\* ZOrder::entangle with y >> 8 in place of y >> 16 in its third line
ZOrder_entangle_shift_typo(p) ==
    <<ZOrder_entangle_table[Key(ByteOf(p[1], 0), ByteOf(p[2], 0))],
      ZOrder_entangle_table[Key(ByteOf(p[1], 1), ByteOf(p[2], 1))],
      ZOrder_entangle_table[Key(ByteOf(p[1], 2), ByteOf(p[2], 1))],
      ZOrder_entangle_table[Key(ByteOf(p[1], 3), ByteOf(p[2], 3))]>>

\* ZOrder::entangle: chunk i is entangle[(((x >> 8i) % 256) << 8) + ((y >> 8i) % 256)]
ZOrder_entangle(p) ==
    <<ZOrder_entangle_table[Key(ByteOf(p[1], 0), ByteOf(p[2], 0))],
      ZOrder_entangle_table[Key(ByteOf(p[1], 1), ByteOf(p[2], 1))],
      ZOrder_entangle_table[Key(ByteOf(p[1], 2), ByteOf(p[2], 2))],
      ZOrder_entangle_table[Key(ByteOf(p[1], 3), ByteOf(p[2], 3))]>>

\* x0 + (x1 << 8) + (x2 << 16) + (x3 << 24) over the bytes k of the looked-up pairs
RECURSIVE ZOrder_assemble(_, _, _)
ZOrder_assemble(t, k, i) ==
    IF i = NumBytes THEN 0
    ELSE ZOrder_detangle_table[t[i + 1]][k] * (ByteSize ^ i)
         + ZOrder_assemble(t, k, i + 1)

\* ZOrder::detangle
ZOrder_detangle(t) == <<ZOrder_assemble(t, 1, 0), ZOrder_assemble(t, 2, 0)>>

---------------------------------------------------------------------------
(* compression.rs: u64 arithmetic on four 16-bit limbs, least significant first *)

LimbSize == 2 ^ 16

Zero64 == <<0, 0, 0, 0>>

\* a - b on u64: the wrapped difference, and whether it overflowed (a < b)
Sub64(a, b) ==
    LET d1 == a[1] - b[1]
        d2 == a[2] - b[2] - (IF d1 < 0 THEN 1 ELSE 0)
        d3 == a[3] - b[3] - (IF d2 < 0 THEN 1 ELSE 0)
        d4 == a[4] - b[4] - (IF d3 < 0 THEN 1 ELSE 0)
    IN  [val |-> <<d1 % LimbSize, d2 % LimbSize, d3 % LimbSize, d4 % LimbSize>>,
         overflow |-> d4 < 0]

\* a + b on u64: the wrapped sum, and whether it overflowed
Add64(a, b) ==
    LET s1 == a[1] + b[1]
        s2 == a[2] + b[2] + (s1 \div LimbSize)
        s3 == a[3] + b[3] + (s2 \div LimbSize)
        s4 == a[4] + b[4] + (s3 \div LimbSize)
    IN  [val |-> <<s1 % LimbSize, s2 % LimbSize, s3 % LimbSize, s4 % LimbSize>>,
         overflow |-> s4 >= LimbSize]

\* a < b on u64
Less64(a, b) ==
    \E i \in 1..4 : a[i] < b[i] /\ \A j \in (i + 1)..4 : a[j] = b[j]

---------------------------------------------------------------------------
(* compression.rs: Compressed, Compressor, Decompressor *)

\* the Compressed of Compressor::with_capacity(size) and Compressor::new():
\* all five streams empty (the capacity reserved for bytes holds no entry)
EmptyCompressed ==
    [bytes |-> <<>>, other |-> <<>>, u16s |-> <<>>, u32s |-> <<>>, u64s |-> <<>>]

\* Compressed::push with `delta <= 256` for `delta < 256`
Compressed_push_byte_256(c, delta) ==
    IF delta # Zero64 /\ delta[1] <= 256 /\ delta[2] = 0 /\ delta[3] = 0 /\ delta[4] = 0
    THEN [c EXCEPT !.bytes = Append(@, delta[1] % 256)]
    ELSE IF delta[2] = 0 /\ delta[3] = 0 /\ delta[4] = 0
    THEN [c EXCEPT !.bytes = Append(@, 0),
                   !.other = Append(@, "Unsigned16"),
                   !.u16s = Append(@, delta[1])]
    ELSE IF delta[3] = 0 /\ delta[4] = 0
    THEN [c EXCEPT !.bytes = Append(@, 0),
                   !.other = Append(@, "Unsigned32"),
                   !.u32s = Append(@, <<delta[1], delta[2]>>)]
    ELSE [c EXCEPT !.bytes = Append(@, 0),
                   !.other = Append(@, "Unsigned64"),
                   !.u64s = Append(@, delta)]

\* Compressed::push without the other.push of its last arm
Compressed_push_no_discriminator(c, delta) ==
    IF delta # Zero64 /\ delta[1] < 256 /\ delta[2] = 0 /\ delta[3] = 0 /\ delta[4] = 0
    THEN [c EXCEPT !.bytes = Append(@, delta[1] % 256)]
    ELSE IF delta[2] = 0 /\ delta[3] = 0 /\ delta[4] = 0
    THEN [c EXCEPT !.bytes = Append(@, 0),
                   !.other = Append(@, "Unsigned16"),
                   !.u16s = Append(@, delta[1])]
    ELSE IF delta[3] = 0 /\ delta[4] = 0
    THEN [c EXCEPT !.bytes = Append(@, 0),
                   !.other = Append(@, "Unsigned32"),
                   !.u32s = Append(@, <<delta[1], delta[2]>>)]
    ELSE [c EXCEPT !.bytes = Append(@, 0),
                   !.u64s = Append(@, delta)]

\* Compressed::push(delta)
Compressed_push(c, delta) ==
    IF delta # Zero64 /\ delta[1] < 256 /\ delta[2] = 0 /\ delta[3] = 0 /\ delta[4] = 0
    THEN [c EXCEPT !.bytes = Append(@, delta[1] % 256)]
    ELSE IF delta[2] = 0 /\ delta[3] = 0 /\ delta[4] = 0
    THEN [c EXCEPT !.bytes = Append(@, 0),
                   !.other = Append(@, "Unsigned16"),
                   !.u16s = Append(@, delta[1])]
    ELSE IF delta[3] = 0 /\ delta[4] = 0
    THEN [c EXCEPT !.bytes = Append(@, 0),
                   !.other = Append(@, "Unsigned32"),
                   !.u32s = Append(@, <<delta[1], delta[2]>>)]
    ELSE [c EXCEPT !.bytes = Append(@, 0),
                   !.other = Append(@, "Unsigned64"),
                   !.u64s = Append(@, delta)]

\* Compressor::push(next): next - self.current panics under overflow checks
\* when next < current, and wraps otherwise
Compressor_push(chk, cur, c, next) ==
    IF chk /\ Sub64(next, cur).overflow
    THEN [panic |-> TRUE, current |-> cur, compressed |-> c]
    ELSE [panic |-> FALSE, current |-> next,
          compressed |-> Compressed_push(c, Sub64(next, cur).val)]

\* Compressed::decompress()
Compressed_decompress ==
    [current |-> Zero64, bytes |-> 0, other |-> 0, u16s |-> 0, u32s |-> 0, u64s |-> 0]

\* the u64 the closure of next adds to current when the byte is 0:
\* [panic (an unwrap of None), d (the iterators advanced), add]
Decompressor_other(d, c) ==
    IF d.other >= Len(c.other) THEN [panic |-> TRUE, d |-> d, add |-> Zero64]
    ELSE LET kind == c.other[d.other + 1]
             d1 == [d EXCEPT !.other = @ + 1]
         IN  IF kind = "Unsigned16"
             THEN IF d.u16s >= Len(c.u16s) THEN [panic |-> TRUE, d |-> d1, add |-> Zero64]
                  ELSE [panic |-> FALSE, d |-> [d1 EXCEPT !.u16s = @ + 1],
                        add |-> <<c.u16s[d.u16s + 1], 0, 0, 0>>]
             ELSE IF kind = "Unsigned32"
             THEN IF d.u32s >= Len(c.u32s) THEN [panic |-> TRUE, d |-> d1, add |-> Zero64]
                  ELSE [panic |-> FALSE, d |-> [d1 EXCEPT !.u32s = @ + 1],
                        add |-> <<c.u32s[d.u32s + 1][1], c.u32s[d.u32s + 1][2], 0, 0>>]
             ELSE IF d.u64s >= Len(c.u64s) THEN [panic |-> TRUE, d |-> d1, add |-> Zero64]
                  ELSE [panic |-> FALSE, d |-> [d1 EXCEPT !.u64s = @ + 1],
                        add |-> c.u64s[d.u64s + 1]]

\* Decompressor::next with `self.current =` for `self.current +=`
Decompressor_next_assign(chk, d, c) ==
    IF d.bytes >= Len(c.bytes) THEN [result |-> "None", d |-> d]
    ELSE LET byte == c.bytes[d.bytes + 1]
             d1 == [d EXCEPT !.bytes = @ + 1]
             o == IF byte > 0 THEN [panic |-> FALSE, d |-> d1, add |-> <<byte, 0, 0, 0>>]
                  ELSE Decompressor_other(d1, c)
         IN  IF o.panic THEN [result |-> "panic", d |-> o.d]
             ELSE [result |-> "Some", d |-> [o.d EXCEPT !.current = o.add]]

\* Decompressor::next(): [result ("Some" | "None" | "panic"), d]; the value of
\* Some is d.current.  self.current += ... panics under overflow checks when
\* the sum overflows, and wraps otherwise
Decompressor_next(chk, d, c) ==
    IF d.bytes >= Len(c.bytes) THEN [result |-> "None", d |-> d]
    ELSE LET byte == c.bytes[d.bytes + 1]
             d1 == [d EXCEPT !.bytes = @ + 1]
             o == IF byte > 0 THEN [panic |-> FALSE, d |-> d1, add |-> <<byte, 0, 0, 0>>]
                  ELSE Decompressor_other(d1, c)
             sum == Add64(d.current, o.add)
         IN  IF o.panic \/ (chk /\ sum.overflow) THEN [result |-> "panic", d |-> o.d]
             ELSE [result |-> "Some", d |-> [o.d EXCEPT !.current = sum.val]]

\* Decompressor::size_hint reporting the length of the whole byte stream
Decompressor_size_hint_total(d, c) == <<Len(c.bytes), Len(c.bytes)>>

\* Decompressor::size_hint(): (self.bytes.len(), Some(self.bytes.len()))
Decompressor_size_hint(d, c) == <<Len(c.bytes) - d.bytes, Len(c.bytes) - d.bytes>>

---------------------------------------------------------------------------
(* Inputs *)

\* number of sample chunks per byte position, for ZOrder and Hilbert
SampleCount == 4
\* number of sample chunks per byte position, for bit_entangle, bit_detangle
\* and BytewiseCached
SeqSampleCount == 3
\* number of values pushed into a Compressor
MaxLen == 3

\* n chunk values spread over the chunk range
Chunks(n) == {(k * 103) % ChunkSize : k \in 0..(n - 1)}
\* the tangles whose chunks are sample chunks
TanglesOf(n) == [1..NumBytes -> Chunks(n)]
\* the coordinate with bytes b[i] (least significant) .. b[NumBytes]
RECURSIVE FromBytes(_, _)
FromBytes(b, i) ==
    IF i > NumBytes THEN 0 ELSE b[i] * (ByteSize ^ (i - 1)) + FromBytes(b, i + 1)
\* the pairs whose byte pairs (as table keys) are sample chunks
PairsOf(n) ==
    {<<FromBytes([i \in 1..NumBytes |-> k[i] \div ByteSize], 1),
       FromBytes([i \in 1..NumBytes |-> k[i] % ByteSize], 1)>> : k \in TanglesOf(n)}

\* the u64 values pushed: 0, 1, 255, 256, 65535, 65536, 2^32 - 1, 2^32, 2^64 - 1
SampleValues ==
    {<<0, 0, 0, 0>>, <<1, 0, 0, 0>>, <<255, 0, 0, 0>>, <<256, 0, 0, 0>>,
     <<LimbSize - 1, 0, 0, 0>>, <<0, 1, 0, 0>>, <<LimbSize - 1, LimbSize - 1, 0, 0>>,
     <<0, 0, 1, 0>>, <<LimbSize - 1, LimbSize - 1, LimbSize - 1, LimbSize - 1>>}

---------------------------------------------------------------------------
(* State machine *)

\* last_push before any push
NoPush ==
    [pushed |-> FALSE, current |-> Zero64, compressed |-> EmptyCompressed,
     next |-> Zero64, panic |-> FALSE]

\* the state before the caller has constructed anything
InitIdle ==
    /\ overflow_checks \in BOOLEAN
    /\ tangler = "none"
    /\ assert_ok = TRUE
    /\ log_s = 0
    /\ rot_arg = <<>>
    /\ rot_res = <<>>
    /\ prev_hi = AllOnesTangle
    /\ prev_out = <<0, 0>>
    /\ prev_rot = <<FALSE, FALSE>>
    /\ phase = "none"
    /\ current = Zero64
    /\ compressed = EmptyCompressed
    /\ decompressor = Compressed_decompress
    /\ pushed = <<>>
    /\ yielded = <<>>
    /\ last_push = NoPush
    /\ last_next = ""

\* the caller holds the argument of its first call: a pair or a tangle
InitArgument ==
    \/ op = "arg_pair" /\ pair \in PairsOf(SampleCount) /\ tangle = ZeroTangle
    \/ op = "arg_tangle" /\ pair = <<0, 0>> /\ tangle \in TanglesOf(SampleCount)

InitNoArgument == op = "none" /\ pair = <<0, 0>> /\ tangle = ZeroTangle

InitZOrder == component = "zorder" /\ InitIdle /\ InitArgument
InitHilbert == component = "hilbert" /\ InitIdle /\ InitArgument
InitBitwise == component = "bitwise" /\ InitIdle /\ InitNoArgument
InitCached == component = "cached" /\ InitIdle /\ InitNoArgument
InitCompress == component = "compress" /\ InitIdle /\ InitNoArgument

\* ZOrder::new()
ZOrderNew ==
    /\ component = "zorder" /\ tangler = "none"
    /\ tangler' = "ready"
    /\ UNCHANGED <<overflow_checks, component, op, pair, tangle, assert_ok,
                   bitVars, cacheVars, compressVars>>

\* ZOrder::entangle((x, y)) of the pair the caller holds
ZOrderEntangle ==
    /\ component = "zorder" /\ tangler = "ready"
    /\ op \in {"arg_pair", "detangle"}
    /\ tangle' = ZOrder_entangle(pair)
    /\ op' = "entangle"
    /\ UNCHANGED <<overflow_checks, component, tangler, pair, assert_ok,
                   bitVars, cacheVars, compressVars>>

\* ZOrder::detangle(tangle) of the tangle the caller holds
ZOrderDetangle ==
    /\ component = "zorder" /\ tangler = "ready"
    /\ op \in {"arg_tangle", "entangle"}
    /\ pair' = ZOrder_detangle(tangle)
    /\ op' = "detangle"
    /\ UNCHANGED <<overflow_checks, component, tangler, tangle, assert_ok,
                   bitVars, cacheVars, compressVars>>

\* Hilbert::new()
HilbertNew ==
    /\ component = "hilbert" /\ tangler = "none"
    /\ tangler' = IF Hilbert_new_panics(overflow_checks) THEN "panicked" ELSE "ready"
    /\ UNCHANGED <<overflow_checks, component, op, pair, tangle, assert_ok,
                   bitVars, cacheVars, compressVars>>

\* Hilbert::entangle((x, y)) of the pair the caller holds; assert_ok is the
\* condition of its debug_assert!
HilbertEntangle ==
    /\ component = "hilbert" /\ tangler = "ready"
    /\ op \in {"arg_pair", "detangle"}
    /\ tangle' = Hilbert_entangle(pair)
    /\ assert_ok' = (bit_entangle(overflow_checks, pair) = Hilbert_entangle(pair))
    /\ op' = "entangle"
    /\ UNCHANGED <<overflow_checks, component, tangler, pair,
                   bitVars, cacheVars, compressVars>>

\* Hilbert::detangle(tangle) of the tangle the caller holds; assert_ok is the
\* condition of its debug_assert!
HilbertDetangle ==
    /\ component = "hilbert" /\ tangler = "ready"
    /\ op \in {"arg_tangle", "entangle"}
    /\ \E res \in {Hilbert_detangle(overflow_checks, tangle)} :
           /\ pair' = res
           /\ assert_ok' = (bit_detangle(overflow_checks, tangle) = res)
           /\ op' = IF res = PanicPair THEN "panicked" ELSE "detangle"
    /\ UNCHANGED <<overflow_checks, component, tangler, tangle,
                   bitVars, cacheVars, compressVars>>

\* a call of bit_entangle(pair): the state before the loop
BitEntangleCall ==
    /\ component = "bitwise"
    /\ op \in {"none", "bit_entangle_done", "bit_detangle_done", "panicked"}
    /\ \E p \in PairsOf(SeqSampleCount) : pair' = p
    /\ tangle' = ZeroTangle
    /\ log_s' = CoordBits - 1
    /\ op' = "bit_entangle"
    /\ rot_arg' = <<>> /\ rot_res' = <<>>
    /\ UNCHANGED <<overflow_checks, component, tangler, assert_ok, cacheVars,
                   compressVars>>

\* one iteration of the loop of bit_entangle
BitEntangleStep ==
    /\ component = "bitwise" /\ op = "bit_entangle"
    /\ \E it \in {bit_entangle_iter(overflow_checks, log_s, pair, tangle)} :
           /\ rot_arg' = it.rot_arg
           /\ rot_res' = it.pair
           /\ pair' = it.pair
           /\ tangle' = it.result
           /\ op' = IF it.pair = PanicPair THEN "panicked"
                    ELSE IF log_s = 0 THEN "bit_entangle_done" ELSE "bit_entangle"
    /\ log_s' = log_s - 1
    /\ UNCHANGED <<overflow_checks, component, tangler, assert_ok, cacheVars,
                   compressVars>>

\* a call of bit_detangle(tangle): the state before the loop
BitDetangleCall ==
    /\ component = "bitwise"
    /\ op \in {"none", "bit_entangle_done", "bit_detangle_done", "panicked"}
    /\ \E t \in TanglesOf(SeqSampleCount) : tangle' = t
    /\ pair' = <<0, 0>>
    /\ log_s' = 0
    /\ op' = "bit_detangle"
    /\ rot_arg' = <<>> /\ rot_res' = <<>>
    /\ UNCHANGED <<overflow_checks, component, tangler, assert_ok, cacheVars,
                   compressVars>>

\* one iteration of the loop of bit_detangle
BitDetangleStep ==
    /\ component = "bitwise" /\ op = "bit_detangle"
    /\ \E it \in {bit_detangle_iter(overflow_checks, log_s, tangle, pair)} :
           /\ rot_arg' = it.rot_arg
           /\ rot_res' = it.rot_res
           /\ pair' = it.pair
           /\ op' = IF it.pair = PanicPair THEN "panicked"
                    ELSE IF log_s = CoordBits - 1 THEN "bit_detangle_done"
                    ELSE "bit_detangle"
    /\ log_s' = log_s + 1
    /\ UNCHANGED <<overflow_checks, component, tangler, tangle, assert_ok,
                   cacheVars, compressVars>>

\* BytewiseCached::new(): Hilbert::new(), the initial cache, then detangle(0)
CachedNew ==
    /\ component = "cached" /\ tangler = "none"
    /\ \E first \in {Cached_validate(overflow_checks, AllOnesTangle, <<0, 0>>,
                                       <<FALSE, FALSE>>, ZeroTangle)} :
           IF Hilbert_new_panics(overflow_checks)
           THEN /\ tangler' = "panicked" /\ op' = "overflow"
                /\ UNCHANGED cacheVars
           ELSE /\ tangler' = IF first.panic THEN "panicked" ELSE "ready"
                /\ op' = IF first.panic THEN "unmatched" ELSE "new"
                /\ prev_hi' = first.hi /\ prev_out' = first.out
                /\ prev_rot' = first.rot
    /\ UNCHANGED <<overflow_checks, component, pair, tangle, assert_ok, bitVars,
                   compressVars>>

\* BytewiseCached::detangle(tangle)
CachedDetangle ==
    /\ component = "cached" /\ tangler = "ready"
    /\ \E t \in TanglesOf(SeqSampleCount) :
        \E valid \in {Cached_validate(overflow_checks, prev_hi, prev_out, prev_rot, t)} :
            /\ tangle' = t
            /\ prev_hi' = valid.hi /\ prev_out' = valid.out /\ prev_rot' = valid.rot
            /\ tangler' = IF valid.panic THEN "panicked" ELSE "ready"
            /\ op' = IF valid.panic THEN "unmatched"
                     ELSE IF prev_hi = TangleHi(t) THEN "detangle_hit"
                     ELSE "detangle_miss"
            /\ pair' = IF valid.panic THEN pair ELSE Cached_result(valid, t)
    /\ UNCHANGED <<overflow_checks, component, assert_ok, bitVars, compressVars>>

\* Compressor::new() and Compressor::with_capacity(size): the capacity
\* reserved for bytes changes no stream
CompressorNew ==
    /\ component = "compress" /\ phase = "none"
    /\ phase' = "compressor"
    /\ current' = Zero64
    /\ compressed' = EmptyCompressed
    /\ UNCHANGED <<overflow_checks, component, tangler, op, pair, tangle, assert_ok,
                   bitVars, cacheVars, decompressor, pushed, yielded, last_push,
                   last_next>>

\* Compressor::push(next); last_push records the call: the current and the
\* streams before it, its argument and whether it panicked
CompressorPush ==
    /\ component = "compress" /\ phase = "compressor"
    /\ Len(pushed) < MaxLen
    /\ \E next \in SampleValues :
        \E done \in {Compressor_push(overflow_checks, current, compressed, next)} :
            /\ pushed' = Append(pushed, next)
            /\ last_push' = [pushed |-> TRUE, current |-> current,
                             compressed |-> compressed, next |-> next,
                             panic |-> done.panic]
            /\ current' = done.current
            /\ compressed' = done.compressed
            /\ phase' = IF done.panic THEN "panicked" ELSE "compressor"
    /\ UNCHANGED <<overflow_checks, component, tangler, op, pair, tangle, assert_ok,
                   bitVars, cacheVars, decompressor, yielded, last_next>>

\* Compressor::done(): the Compressor is consumed, its Compressed returned
CompressorDone ==
    /\ component = "compress" /\ phase = "compressor"
    /\ phase' = "compressed"
    /\ UNCHANGED <<overflow_checks, component, tangler, op, pair, tangle, assert_ok,
                   bitVars, cacheVars, current, compressed, decompressor, pushed,
                   yielded, last_push, last_next>>

\* Compressed::decompress(): a fresh Decompressor over the streams
CompressedDecompress ==
    /\ component = "compress" /\ phase \in {"compressed", "decompressor"}
    /\ phase' = "decompressor"
    /\ decompressor' = Compressed_decompress
    /\ yielded' = <<>>
    /\ last_next' = "decompress"
    /\ UNCHANGED <<overflow_checks, component, tangler, op, pair, tangle, assert_ok,
                   bitVars, cacheVars, current, compressed, pushed, last_push>>

\* Decompressor::next(); yielded collects the values of Some
DecompressorNext ==
    /\ component = "compress" /\ phase = "decompressor"
    /\ \E nxt \in {Decompressor_next(overflow_checks, decompressor, compressed)} :
           /\ decompressor' = nxt.d
           /\ last_next' = nxt.result
           /\ yielded' = IF nxt.result = "Some" THEN Append(yielded, nxt.d.current)
                         ELSE yielded
           /\ phase' = IF nxt.result = "panic" THEN "panicked" ELSE "decompressor"
    /\ UNCHANGED <<overflow_checks, component, tangler, op, pair, tangle, assert_ok,
                   bitVars, cacheVars, current, compressed, pushed, last_push>>

NextZOrder == ZOrderNew \/ ZOrderEntangle \/ ZOrderDetangle
NextHilbert == HilbertNew \/ HilbertEntangle \/ HilbertDetangle
NextBitwise == BitEntangleCall \/ BitEntangleStep \/ BitDetangleCall \/ BitDetangleStep
NextCached == CachedNew \/ CachedDetangle
NextCompress ==
    \/ CompressorNew \/ CompressorPush \/ CompressorDone
    \/ CompressedDecompress \/ DecompressorNext

SpecZOrder == InitZOrder /\ [][NextZOrder]_vars
SpecHilbert == InitHilbert /\ [][NextHilbert]_vars
SpecBitwise == InitBitwise /\ [][NextBitwise]_vars
SpecCached == InitCached /\ [][NextCached]_vars
SpecCompress == InitCompress /\ [][NextCompress]_vars

Init == InitZOrder \/ InitHilbert \/ InitBitwise \/ InitCached \/ InitCompress
Next == NextZOrder \/ NextHilbert \/ NextBitwise \/ NextCached \/ NextCompress
Spec == Init /\ [][Next]_vars

---------------------------------------------------------------------------
(* Properties: layout.rs *)

C4_ZOrderInverse ==
    component = "zorder" =>
        /\ op = "entangle" => ZOrder_detangle(tangle) = pair
        /\ op = "detangle" => ZOrder_entangle(pair) = tangle

\* detangle has run on a tangle with four different chunks
C4_Witness ==
    /\ component = "zorder" /\ tangler = "ready" /\ op = "detangle"
    /\ Cardinality({tangle[i] : i \in 1..NumBytes}) = NumBytes
    /\ pair[1] # pair[2]

\* the rotation Hilbert::detangle looks up for chunk z
RotationOfChunk(z) ==
    Hilbert_rotation_table[Key(Hilbert_detangle_table[z][1],
                               Hilbert_detangle_table[z][2])]

RotCalled == rot_arg # <<>>
RotOff == ((2 ^ rot_arg[1]) - 1) % CoordSize
RotX == rot_arg[2]
RotY == rot_arg[3]
RotRx == rot_arg[4]
RotRy == rot_arg[5]

\* C10 as stated: a call of bit_rotate that returns gives (off - x, off - y)
\* when ry == 0 and rx == 1, (y, x) when ry == 0 and rx == 0, and the pair
\* unchanged when ry == 1.
C10_AsStated ==
    (component = "bitwise" /\ RotCalled /\ rot_res # PanicPair) =>
        /\ (RotRy = 0 /\ RotRx = 1) =>
               rot_res = <<(RotOff - RotX) % CoordSize, (RotOff - RotY) % CoordSize>>
        /\ (RotRy = 0 /\ RotRx = 0) => rot_res = <<RotY, RotX>>
        /\ RotRy = 1 => rot_res = <<RotX, RotY>>

\* C10 amended: when ry == 0 and rx == 1 bit_rotate reflects both coordinates
\* and swaps them, (off - y, off - x); each difference is a u32 subtraction:
\* exact when no coordinate exceeds off, and otherwise a panic in a build
\* with overflow checks and the difference modulo 2^32 in a build without.
\* When ry == 0 and rx == 0 it gives (y, x); when ry == 1 the pair unchanged.
C10_ReflectAndSwap ==
    (component = "bitwise" /\ RotCalled) =>
        /\ (RotRy = 0 /\ RotRx = 1) =>
               IF RotX <= RotOff /\ RotY <= RotOff
               THEN rot_res = <<RotOff - RotY, RotOff - RotX>>
               ELSE IF overflow_checks THEN rot_res = PanicPair
               ELSE rot_res = <<(RotOff - RotY) % CoordSize,
                                (RotOff - RotX) % CoordSize>>
        /\ (RotRy = 0 /\ RotRx = 0) => rot_res = <<RotY, RotX>>
        /\ RotRy = 1 => rot_res = <<RotX, RotY>>

\* bit_rotate has reflected a pair of different coordinates within off
C10_Witness ==
    /\ component = "bitwise" /\ RotCalled
    /\ RotRy = 0 /\ RotRx = 1
    /\ RotX # RotY /\ RotX <= RotOff /\ RotY <= RotOff
    /\ rot_res # PanicPair

---------------------------------------------------------------------------
(* Properties: compression.rs *)

\* s[i] < s[i + 1] for the u64 values of s
StrictlyIncreasing(s) == \A i \in 1..(Len(s) - 1) : Less64(s[i], s[i + 1])

\* C2: when the values pushed are strictly increasing, no push panics, the
\* Decompressor yields them in order, and once next() has returned None it
\* has yielded exactly the values pushed.
C2_RoundTrip ==
    (component = "compress" /\ StrictlyIncreasing(pushed)) =>
        /\ phase # "panicked"
        /\ Len(yielded) <= Len(pushed)
        /\ \A i \in 1..Len(yielded) : yielded[i] = pushed[i]
        /\ last_next = "None" => yielded = pushed

\* a strictly increasing sequence of three values, one of them through the
\* 64-bit stream, has been decompressed to exhaustion
C2_Witness ==
    /\ component = "compress" /\ phase = "decompressor" /\ last_next = "None"
    /\ Len(pushed) >= 3 /\ StrictlyIncreasing(pushed)
    /\ Len(compressed.u64s) >= 1

\* the delta of the last Compressor::push, modulo 2^64
LastDelta == Sub64(last_push.next, last_push.current).val
\* Compressed::push ran in the last Compressor::push
LastPushEncoded == last_push.pushed /\ ~last_push.panic

\* the tier documented for delta
DocumentedTier(delta) ==
    IF delta[2] = 0 /\ delta[3] = 0 /\ delta[4] = 0
    THEN IF 0 < delta[1] /\ delta[1] < 256 THEN "byte" ELSE "u16"
    ELSE IF delta[3] = 0 /\ delta[4] = 0 THEN "u32" ELSE "u64"

\* streams `after` are streams `before` with delta appended in the tier
AppendedIn(tier, before, after, delta) ==
    /\ after.bytes = Append(before.bytes, IF tier = "byte" THEN delta[1] ELSE 0)
    /\ after.other = IF tier = "byte" THEN before.other
                     ELSE Append(before.other,
                                 IF tier = "u16" THEN "Unsigned16"
                                 ELSE IF tier = "u32" THEN "Unsigned32"
                                 ELSE "Unsigned64")
    /\ after.u16s = IF tier = "u16" THEN Append(before.u16s, delta[1])
                    ELSE before.u16s
    /\ after.u32s = IF tier = "u32" THEN Append(before.u32s, <<delta[1], delta[2]>>)
                    ELSE before.u32s
    /\ after.u64s = IF tier = "u64" THEN Append(before.u64s, delta)
                    ELSE before.u64s

\* the boundary deltas with their documented tiers: 1, 255, 256, 65535, 65536,
\* 2^32 - 1, 2^32
BoundaryTiers ==
    {<<<<1, 0, 0, 0>>, "byte">>, <<<<255, 0, 0, 0>>, "byte">>,
     <<<<256, 0, 0, 0>>, "u16">>, <<<<65535, 0, 0, 0>>, "u16">>,
     <<<<0, 1, 0, 0>>, "u32">>, <<<<65535, 65535, 0, 0>>, "u32">>,
     <<<<0, 0, 1, 0>>, "u64">>}

\* C6: a push that encodes delta = next - current appends it in the
\* documented tier: the delta itself as the tag byte when 0 < delta < 256,
\* else tag byte 0, one discriminator and the delta in the 16-bit stream when
\* delta < 2^16, else the 32-bit stream when delta < 2^32, else the 64-bit
\* stream; the deltas 1, 255, 256, 65535, 65536, 2^32 - 1 and 2^32 land in
\* the tiers documented for them.
C6_DocumentedTier ==
    (component = "compress" /\ LastPushEncoded) =>
        /\ AppendedIn(DocumentedTier(LastDelta), last_push.compressed, compressed,
                      LastDelta)
        /\ \A b \in BoundaryTiers :
               LastDelta = b[1] =>
                   AppendedIn(b[2], last_push.compressed, compressed, LastDelta)

\* the last push encoded the delta 256 after an earlier push
C6_Witness ==
    /\ component = "compress" /\ LastPushEncoded
    /\ LastDelta = <<256, 0, 0, 0>>
    /\ Len(last_push.compressed.bytes) >= 1

\* number of entries of s equal to v
CountOf(s, v) == Cardinality({i \in DOMAIN s : s[i] = v})

\* C7: in every state of the Compressor and in the Compressed of done(), the
\* number of zero tag bytes equals the length of the discriminator stream and
\* the sum of the lengths of the three overflow streams, and the
\* discriminators of each kind are as many as the entries of their stream.
C7_StreamLengths ==
    component = "compress" =>
        /\ CountOf(compressed.bytes, 0) = Len(compressed.other)
        /\ Len(compressed.other) =
               Len(compressed.u16s) + Len(compressed.u32s) + Len(compressed.u64s)
        /\ CountOf(compressed.other, "Unsigned16") = Len(compressed.u16s)
        /\ CountOf(compressed.other, "Unsigned32") = Len(compressed.u32s)
        /\ CountOf(compressed.other, "Unsigned64") = Len(compressed.u64s)

\* done() has returned streams with a direct byte and two kinds of overflow
C7_Witness ==
    /\ component = "compress" /\ phase = "compressed"
    /\ CountOf(compressed.bytes, 0) < Len(compressed.bytes)
    /\ Len(compressed.u16s) >= 1 /\ Len(compressed.u64s) >= 1

\* the number of values next() still yields from decompressor state d
RECURSIVE RemainingYields(_)
RemainingYields(d) ==
    The({IF nxt.result = "Some" THEN 1 + RemainingYields(nxt.d) ELSE 0
         : nxt \in {Decompressor_next(overflow_checks, d, compressed)}})

\* C8: size_hint() of a Decompressor gives lower bound = upper bound = the
\* number of values next() still yields: the number of tag bytes, which is
\* the number of values pushed, right after decompress(), that number less k
\* after k values, and 0 exactly when next() returns None.
C8_SizeHintExact ==
    (component = "compress" /\ phase = "decompressor") =>
        /\ Decompressor_size_hint(decompressor, compressed)[1]
               = Decompressor_size_hint(decompressor, compressed)[2]
        /\ Decompressor_size_hint(decompressor, compressed)[1]
               = RemainingYields(decompressor)
        /\ Decompressor_size_hint(decompressor, compressed)[1]
               = Len(compressed.bytes) - Len(yielded)
        /\ Len(compressed.bytes) = Len(pushed)
        /\ last_next = "None" =>
               Decompressor_size_hint(decompressor, compressed)[1] = 0
        /\ Decompressor_size_hint(decompressor, compressed)[1] = 0 <=>
               Decompressor_next(overflow_checks, decompressor, compressed).result
                   = "None"

\* next() has yielded one of three values
C8_Witness ==
    /\ component = "compress" /\ phase = "decompressor"
    /\ Len(pushed) = 3 /\ Len(yielded) = 1 /\ last_next = "Some"

\* C9 as stated: a push of next <= current completes, encodes the delta
\* next - current modulo 2^64 in the tier of its width (0 in the 16-bit
\* stream), and sets current = next.
C9_AsStated ==
    (component = "compress" /\ last_push.pushed
        /\ ~Less64(last_push.current, last_push.next)) =>
        /\ ~last_push.panic
        /\ phase # "panicked"
        /\ current = last_push.next
        /\ AppendedIn(DocumentedTier(LastDelta), last_push.compressed, compressed,
                      LastDelta)

===========================================================================
